---- MODULE Spec2Model ----
(***************************************************************************)
(* The Markov text engine of FTBot (src/markov_engine.py): the trie store, *)
(* the trainer that folds windowed n-grams into it, and the generator that *)
(* fills a POS skeleton by projection and weighted sampling.               *)
(*                                                                         *)
(* Python values are modelled as follows.                                  *)
(*  - A str is a sequence of one-character strings (<<"c","a","t">>).      *)
(*  - An Optional value is a sequence of length 0 (None) or 1 (Some(x)).   *)
(*  - The nested dict of MarkovTrieDb._trie is a function from the paths   *)
(*    of its nodes (sequences of lower-cased characters, the root being    *)
(*    <<>>) to the node's payload keys '_W' and '_N'.                      *)
(*  - A neighbors dict is a Python object that several MarkovWord objects  *)
(*    and one trie node may reference at once; `heap` holds these objects  *)
(*    and a reference is an index into it.  A dict is the sequence of its  *)
(*    rows in insertion order, each row the key with [pos, values, dist].  *)
(*  - List indices are the 0-based indices of the source.                  *)
(***************************************************************************)
EXTENDS Integers, Sequences, FiniteSets, TLC

VARIABLES
    trie,                  \* MarkovTrieDb._trie
    heap,                  \* the neighbors dict objects, by reference
    learned,               \* the documents passed to learn so far, in call order
    call,                  \* the last call of the store's interface and its return
    structure,             \* MarkovGenerator.structure
    subjects,              \* MarkovGenerator.subjects
    given_subjects,        \* the list the constructor was given, as its caller holds it
    sentence_structures,   \* MarkovGenerator.sentence_structures
    sentence_generations,  \* MarkovGenerator.sentence_generations
    pc,                    \* where the generate call stands
    sentence_idx,          \* the for loop of _generate_words
    old_work_left,         \* local of _generate_words
    iterations,            \* passes of `while True` begun in this call
    work_at_start,         \* _work_remaining() on entry to _generate_words
    blank_idx,             \* local of the sweep last run
    project_idx,           \* local of the sweep last run
    p_values,              \* the column handle_projections last sampled from
    result,                \* what generate returned (None or the sentences)
    ftbot,                 \* the FTBot object of ftbot_discord.py: reply, replyrate, shutup
    handlers,              \* the on_message coroutines, by the message they handle
    chat                   \* the calls of client.send_message, in call order

db_vars == <<trie, heap>>
bot_vars == <<ftbot, handlers, chat>>
gen_vars == <<structure, subjects, given_subjects, sentence_structures, sentence_generations,
              pc, sentence_idx, old_work_left, iterations, work_at_start,
              blank_idx, project_idx, p_values, result>>
vars == <<trie, heap, learned, call, structure, subjects, given_subjects, sentence_structures,
          sentence_generations, pc, sentence_idx, old_work_left, iterations,
          work_at_start, blank_idx, project_idx, p_values, result,
          ftbot, handlers, chat>>

----------------------------------------------------------------------------
(* Values *)

None == <<>>
Some(x) == <<x>>

\* ml_config.MARKOV_WINDOW_SIZE (the scenarios of the specification use 2)
MARKOV_WINDOW_SIZE == 2
\* ml_config.MARKOV_GENERATION_WEIGHT_COUNT / _RATING (defaults 1.0)
MARKOV_GENERATION_WEIGHT_COUNT == 1
MARKOV_GENERATION_WEIGHT_RATING == 1
\* ml_config.MARKOV_GENERATE_SUBJECT_POS_PRIORITY (noun-like tags first)
MARKOV_GENERATE_SUBJECT_POS_PRIORITY == <<"NOUN", "VERB">>

\* nlp_common.PosEnum: the tags of the tagger and the sentinel EOS
EOS == "EOS"
PosEnum == {"NOUN", "VERB", "ADJ", EOS}

\* str.lower on the characters of the model
lower(c) == IF c = "B" THEN "b" ELSE c

\* PosEnum members by their integer value: member.value and PosEnum(value)
PosValues == <<"NOUN", "VERB", "ADJ", EOS>>
pos_value(pos) == CHOOSE v \in 1..Len(PosValues) : PosValues[v] = pos
PosEnumOf(v) == PosValues[v]

\* a spaCy token: its text and the PosEnum get_pos_from_token gives it
Token(text, pos) == [text |-> text, pos |-> pos]

Abs(n) == IF n < 0 THEN -n ELSE n

\* ndarray.tolist(): the array as a list of its values
tolist(v) == <<>> \o v

RECURSIVE Sum(_)
Sum(s) == IF s = <<>> THEN 0 ELSE Head(s) + Sum(Tail(s))

RECURSIVE Concat(_)
Concat(ss) == IF ss = <<>> THEN <<>> ELSE Head(ss) \o Concat(Tail(ss))

----------------------------------------------------------------------------
(* nlp_common.one_hot and MarkovNeighbor *)

\* one_hot(i, n): n zeros with a 1 at the 0-based index i
one_hot(i, n) == [k \in 1..n |-> IF k = i + 1 THEN 1 ELSE 0]

distance_one_hot(dist) == one_hot(dist + MARKOV_WINDOW_SIZE, MARKOV_WINDOW_SIZE * 2 + 1)

\* MarkovNeighbor.from_token
neighbor_from_token(token) ==
    [text |-> token.text, pos |-> token.pos, values |-> <<0, 0>>,
     dist |-> [k \in 1..(MARKOV_WINDOW_SIZE * 2 + 1) |-> 0]]

----------------------------------------------------------------------------
(* MarkovWord: text, pos and a reference to its neighbors dict *)

MarkovWord(text, pos, neighbors) == [text |-> text, pos |-> pos, neighbors |-> neighbors]

\* the position of `key` among the rows of dict d, 0 when it is no key of d
key_index(d, key) ==
    IF \E i \in 1..Len(d) : d[i].text = key
    THEN CHOOSE i \in 1..Len(d) : d[i].text = key
    ELSE 0

\* `key in word.neighbors`
has_key(d, key) == key_index(d, key) # 0

\* MarkovWord.get_neighbor on the dict d of the word
get_neighbor(d, key) == IF has_key(d, key) THEN Some(d[key_index(d, key)]) ELSE None

\* word.neighbors[key] = neighbor_db: a present key keeps its place, a new one is last
set_key(d, row) ==
    IF has_key(d, row.text)
    THEN [d EXCEPT ![key_index(d, row.text)] = row]
    ELSE Append(d, row)

----------------------------------------------------------------------------
(* MarkovTrieDb *)

EmptyNode == [W |-> None, N |-> None]
EmptyTrie == (<<>> :> EmptyNode)

\* traversal by the characters as written, without c.lower()
path_of_exact(word) == [i \in 1..Len(word) |-> word[i]]

\* the keys the traversal follows: c.lower() for each c of the word
path_of(word) == [i \in 1..Len(word) |-> lower(word[i])]

_getnode(t, word) ==
    IF Len(word) = 0 THEN None
    ELSE IF path_of(word) \in DOMAIN t THEN Some(path_of(word)) ELSE None

_select(t, word) ==
    LET node == _getnode(t, word)
    IN  IF node = None THEN None
        ELSE IF t[node[1]].W # None THEN node ELSE None

\* MarkovWord.from_db_format on the node at path p
from_db_format(t, p) == MarkovWord(t[p].W[1].T, PosEnumOf(t[p].W[1].P), t[p].N[1])

select(t, word) ==
    LET row == _select(t, word)
    IN  IF row # None THEN Some(from_db_format(t, row[1])) ELSE None

\* _insert: the trie after it (the node it returns is the one at path_of(word))
_insert(t, word, pos, neighbors) ==
    LET path == path_of(word)
        made == {SubSeq(path, 1, k) : k \in 0..Len(path)}
    IN  [p \in (DOMAIN t) \cup made |->
            IF p = path THEN [W |-> Some([T |-> word, P |-> pos]), N |-> Some(neighbors)]
            ELSE IF p \in DOMAIN t THEN t[p]
            ELSE EmptyNode]

insert(t, word) == _insert(t, word.text, pos_value(word.pos), word.neighbors)

\* _update reaching its node through _getnode: a node without '_W' is written too
_update_any_node(t, word, pos, neighbors) ==
    LET node == _getnode(t, word)
    IN  IF node = None THEN None
        ELSE Some([t EXCEPT ![node[1]] =
                      [W |-> Some([T |-> word, P |-> pos]), N |-> Some(neighbors)]])

\* _update: None on a miss, else the trie after it
_update(t, word, pos, neighbors) ==
    LET node == _select(t, word)
    IN  IF node = None THEN None
        ELSE Some([t EXCEPT ![node[1]] =
                      [W |-> Some([T |-> word, P |-> pos]), N |-> Some(neighbors)]])

update(t, word) == _update(t, word.text, pos_value(word.pos), word.neighbors)

\* what insert returns: from_db_format of the node _insert returns, which is never None
insert_return(t, word) == Some(from_db_format(insert(t, word), path_of(word.text)))

\* what update returns: None on a miss, else from_db_format of the node
update_return(t, word) ==
    LET node == update(t, word)
    IN  IF node = None THEN None
        ELSE Some(from_db_format(node[1], path_of(word.text)))

\* a snapshot file: whether zlib.decompress(...).decode() and json.loads accept
\* its bytes, and the value json.loads builds from them (its dicts are new objects)
Snapshot(decompresses, decodes, t, h) ==
    [decompresses |-> decompresses, decodes |-> decodes, trie |-> t, heap |-> h]

\* load: an exception of either line leaves self._trie as it was; otherwise
\* whatever json.loads returned becomes the trie
load(t, h, snapshot) ==
    IF snapshot.decompresses /\ snapshot.decodes
    THEN [raised |-> FALSE, trie |-> snapshot.trie, heap |-> snapshot.heap]
    ELSE [raised |-> TRUE, trie |-> t, heap |-> h]

\* a node map the operations can read: '_W' and '_N' come together, the POS code
\* is a value of PosEnum, the neighbors are a dict, every node hangs under its parent
WellFormed(t, h) ==
    /\ <<>> \in DOMAIN t
    /\ \A p \in DOMAIN t :
          /\ p # <<>> => SubSeq(p, 1, Len(p) - 1) \in DOMAIN t
          /\ p = path_of(p)
          /\ (t[p].W = None) = (t[p].N = None)
          /\ t[p].W # None =>
                /\ t[p].W[1].P \in 1..Len(PosValues)
                /\ t[p].N[1] \in 1..Len(h)

----------------------------------------------------------------------------
(* FTBot (src/ftbot.py) and the on_message coroutine of src/ftbot_discord.py. *)
(* The event loop runs one coroutine at a time: a handler runs from its      *)
(* start, or from the send it was suspended in, to its next                  *)
(* `yield from client.send_message(...)` or to its end, as one step.         *)

MaxMessages == 2
Messages == 1..MaxMessages

\* config.CONFIG_DEFAULT_REPLYRATE
CONFIG_DEFAULT_REPLYRATE == 100
\* the rates `!replyrate N` is given
Rates == {0, CONFIG_DEFAULT_REPLYRATE}

\* pyborg.process_msg and ai.process_msg may each call bot.output once
Outputs == 0..2

\* a text sent to the chat: the message whose handling made it and, for the
\* texts made by FTBot.output, which call of output made it (0: a text the
\* handler sends itself, such as 'Command Syntax error.')
Text(m, k) == [of |-> m, k |-> k]

\* a coroutine of on_message that has not run yet
NotStarted == [pc |-> "waiting"]

BotIdle ==
    /\ ftbot = [reply |-> None, replyrate |-> CONFIG_DEFAULT_REPLYRATE, shutup |-> FALSE]
    /\ handlers = [m \in Messages |-> NotStarted]
    /\ chat = <<>>

\* FTBot.output
output(bot, msg, args) ==
    [bot EXCEPT !.reply = Some([channel |-> args.channel, message |-> msg])]

\* FTBot.process_message: the bot after pyborg.process_msg and ai.process_msg
\* have called bot.output `outputs` times in all (the last call is what stays)
process_message(bot, m, args, outputs) ==
    IF outputs = 0 THEN bot ELSE output(bot, Text(m, outputs), args)

\* args of on_message: the channel is that of the message
args_of(m) == [channel |-> m]

\* client.send_message(channel, message) called by the handler of m; from_slot
\* tells that the arguments were read from ftbot.reply
send_message(m, channel, message, from_slot) ==
    [by |-> m, channel |-> channel, message |-> message, from_slot |-> from_slot]

\* the handler reaches the end of on_message, or leaves it by an exception
Ends(m, how) ==
    handlers' = [handlers EXCEPT ![m] = [pc |-> how]]

\* `if ftbot.reply != None: yield from client.send_message(ftbot.reply[...]...)`
\* on the bot `bot`: the handler suspends in the send, or goes on to its end
SendReplyIfAny(m, bot) ==
    /\ ftbot' = bot
    /\ IF bot.reply # None
       THEN /\ chat' = Append(chat, send_message(m, bot.reply[1].channel,
                                                 bot.reply[1].message, TRUE))
            /\ handlers' = [handlers EXCEPT ![m] = [pc |-> "send_reply"]]
       ELSE /\ chat' = chat
            /\ Ends(m, "returned")

\* `if str(message.author) == CONFIG_DISCORD_ME: return`
OwnMessage(m) ==
    /\ handlers[m].pc = "waiting"
    /\ UNCHANGED <<trie, heap, learned, call, gen_vars>>
    /\ Ends(m, "returned")
    /\ UNCHANGED <<ftbot, chat>>

\* '!shutup': ftbot.shutup is the bool __init__ assigned, so the call raises
\* TypeError before anything is written
ShutupCommand(m) ==
    /\ handlers[m].pc = "waiting"
    /\ UNCHANGED <<trie, heap, learned, call, gen_vars>>
    /\ Ends(m, "raised")
    /\ UNCHANGED <<ftbot, chat>>

\* '!wakeup': ftbot.wakeup() lacks the argument `args` and raises TypeError
WakeupCommand(m) ==
    /\ handlers[m].pc = "waiting"
    /\ UNCHANGED <<trie, heap, learned, call, gen_vars>>
    /\ Ends(m, "raised")
    /\ UNCHANGED <<ftbot, chat>>

\* '!replyrate': the rate is set and announced, or int(...split(" ")[1]) raises
\* IndexError or ValueError, which `except KeyError` does not catch
ReplyrateCommand(m) ==
    /\ handlers[m].pc = "waiting"
    /\ UNCHANGED <<trie, heap, learned, call, gen_vars>>
    /\ \/ \E rate \in Rates :
             /\ ftbot' = [ftbot EXCEPT !.replyrate = rate]
             /\ chat' = Append(chat, send_message(m, m, Text(m, 0), FALSE))
             /\ handlers' = [handlers EXCEPT ![m] = [pc |-> "send_text"]]
       \/ /\ Ends(m, "raised")
          /\ UNCHANGED <<ftbot, chat>>

\* '!meme': memegen ends with self.output(url, args), or the text is too short
MemeCommand(m) ==
    /\ handlers[m].pc = "waiting"
    /\ UNCHANGED <<trie, heap, learned, call, gen_vars>>
    /\ \/ SendReplyIfAny(m, output(ftbot, Text(m, 1), args_of(m)))
       \/ /\ chat' = Append(chat, send_message(m, m, Text(m, 0), FALSE))
          /\ handlers' = [handlers EXCEPT ![m] = [pc |-> "send_text"]]
          /\ ftbot' = ftbot

\* any other '!...': process_message, then the reply slot is read
OtherCommand(m) ==
    /\ handlers[m].pc = "waiting"
    /\ UNCHANGED <<trie, heap, learned, call, gen_vars>>
    /\ \E outputs \in Outputs :
          SendReplyIfAny(m, process_message(ftbot, m, args_of(m), outputs))

\* a message that is no command: process_message(msg, args, mentioned=mentioned)
\* raises TypeError on the first line, process_message has no such parameter
PlainMessage(m) ==
    /\ handlers[m].pc = "waiting"
    /\ UNCHANGED <<trie, heap, learned, call, gen_vars>>
    /\ Ends(m, "raised")
    /\ UNCHANGED <<ftbot, chat>>

\* the send the handler was suspended in completes: `ftbot.reply = None` after
\* a send of the reply slot, nothing after a send of the handler's own text
Resume(m) ==
    /\ handlers[m].pc \in {"send_reply", "send_text"}
    /\ UNCHANGED <<trie, heap, learned, call, gen_vars>>
    /\ ftbot' = IF handlers[m].pc = "send_reply"
                THEN [ftbot EXCEPT !.reply = None] ELSE ftbot
    /\ Ends(m, "returned")
    /\ chat' = chat

----------------------------------------------------------------------------
(* The store's specification: calls of insert, update, select and load *)

GenIdle ==
    /\ structure = <<>>
    /\ subjects = <<>>
    /\ given_subjects = <<>>
    /\ sentence_structures = <<>>
    /\ sentence_generations = <<>>
    /\ pc = "idle"
    /\ sentence_idx = 0
    /\ old_work_left = 0
    /\ iterations = 0
    /\ work_at_start = 0
    /\ blank_idx = None
    /\ project_idx = <<>>
    /\ p_values = None
    /\ result = None

MaxDbCalls == 2

DbTexts == {<<>>, <<"a">>, <<"b">>, <<"B">>, <<"a", "b">>, <<"a", "B">>}
DbPos == {"NOUN", "VERB"}

\* the dicts a caller builds for a new word: {} or one neighbor row
DbDicts ==
    {<<>>,
     <<[text |-> <<"a">>, pos |-> "NOUN", values |-> <<1, 0>>,
        dist |-> tolist(distance_one_hot(1))]>>}

\* the snapshot files offered to load: bytes that are no zlib stream, a stream
\* that is no JSON, the dump of an empty store, the dump of a store holding
\* "b", and a dump whose node "b" has '_W' but no '_N'
Snapshots ==
    {Snapshot(FALSE, FALSE, EmptyTrie, <<>>),
     Snapshot(TRUE, FALSE, EmptyTrie, <<>>),
     Snapshot(TRUE, TRUE, EmptyTrie, <<>>),
     Snapshot(TRUE, TRUE,
              _insert(EmptyTrie, <<"b">>, pos_value("VERB"), 1), <<<<>>>>),
     Snapshot(TRUE, TRUE,
              [_insert(EmptyTrie, <<"b">>, pos_value("VERB"), 1)
                  EXCEPT ![<<"b">>].N = None], <<>>)}

NoCall ==
    [op |-> "none", text |-> <<>>, word |-> None, snapshot |-> None,
     returned |-> None, raised |-> FALSE, trie |-> EmptyTrie, heap |-> <<>>, n |-> 0]

\* the record of a call made on the store <<trie, heap>>
Called(op, text, word, snapshot, returned, raised) ==
    [op |-> op, text |-> text, word |-> word, snapshot |-> snapshot,
     returned |-> returned, raised |-> raised, trie |-> trie, heap |-> heap,
     n |-> call.n + 1]

\* the caller holds a MarkovWord whose dict is new (d) or one the store already has
Insert(word, d) ==
    /\ call.n < MaxDbCalls
    /\ WellFormed(trie, heap)
    /\ heap' = IF word.neighbors = Len(heap) + 1 THEN Append(heap, d) ELSE heap
    /\ trie' = insert(trie, word)
    /\ call' = Called("insert", word.text, Some(word), None, insert_return(trie, word), FALSE)
    /\ UNCHANGED <<learned, gen_vars, bot_vars>>

Update(word, d) ==
    /\ call.n < MaxDbCalls
    /\ WellFormed(trie, heap)
    /\ heap' = IF word.neighbors = Len(heap) + 1 THEN Append(heap, d) ELSE heap
    /\ trie' = IF update(trie, word) = None THEN trie ELSE update(trie, word)[1]
    /\ call' = Called("update", word.text, Some(word), None, update_return(trie, word), FALSE)
    /\ UNCHANGED <<learned, gen_vars, bot_vars>>

Select(text) ==
    /\ call.n < MaxDbCalls
    /\ WellFormed(trie, heap)
    /\ call' = Called("select", text, None, None, select(trie, text), FALSE)
    /\ UNCHANGED <<trie, heap, learned, gen_vars, bot_vars>>

Load(snapshot) ==
    /\ call.n < MaxDbCalls
    /\ LET after == load(trie, heap, snapshot)
       IN  /\ trie' = after.trie
           /\ heap' = after.heap
           /\ call' = Called("load", <<>>, None, Some(snapshot), None, after.raised)
    /\ UNCHANGED <<learned, gen_vars, bot_vars>>

InsertSome ==
    \E text \in DbTexts, pos \in DbPos, ref \in 1..(Len(heap) + 1), d \in DbDicts :
        Insert(MarkovWord(text, pos, ref), d)

UpdateSome ==
    \E text \in DbTexts, pos \in DbPos, ref \in 1..(Len(heap) + 1), d \in DbDicts :
        Update(MarkovWord(text, pos, ref), d)

SelectSome == \E text \in DbTexts : Select(text)

LoadSome == \E snapshot \in Snapshots : Load(snapshot)

InitDb ==
    /\ trie = EmptyTrie
    /\ heap = <<>>
    /\ learned = <<>>
    /\ call = NoCall
    /\ GenIdle
    /\ BotIdle

NextDb ==
    \/ InsertSome
    \/ UpdateSome
    \/ SelectSome
    \/ LoadSome

SpecDb == InitDb /\ [][NextDb]_vars

----------------------------------------------------------------------------
(* The bot's specification: on_message handlers interleaved at their sends *)

InitBot ==
    /\ trie = EmptyTrie
    /\ heap = <<>>
    /\ learned = <<>>
    /\ call = NoCall
    /\ GenIdle
    /\ BotIdle

\* the steps of the coroutines of on_message
NextBot ==
    \/ \E m \in Messages : OwnMessage(m)
    \/ \E m \in Messages : ShutupCommand(m)
    \/ \E m \in Messages : WakeupCommand(m)
    \/ \E m \in Messages : ReplyrateCommand(m)
    \/ \E m \in Messages : MemeCommand(m)
    \/ \E m \in Messages : OtherCommand(m)
    \/ \E m \in Messages : PlainMessage(m)
    \/ \E m \in Messages : Resume(m)

SpecBot == InitBot /\ [][NextBot]_vars

----------------------------------------------------------------------------
(* MarkovTrainer *)

\* ngramify without `if dist != 0`: a token is paired with itself
ngramify_with_self(span) ==
    LET n == Len(span)
        pairs == [k \in 1..(n * n) |-> <<((k - 1) \div n), ((k - 1) % n)>>]
        kept(p) == Abs(p[2] - p[1]) <= MARKOV_WINDOW_SIZE
        sel == SelectSeq(pairs, kept)
    IN  [k \in 1..Len(sel) |-> <<span[sel[k][1] + 1], span[sel[k][2] + 1], sel[k][2] - sel[k][1]>>]

\* ngramify with `abs(dist) < MARKOV_WINDOW_SIZE`: the pairs K apart are dropped
ngramify_short_window(span) ==
    LET n == Len(span)
        pairs == [k \in 1..(n * n) |-> <<((k - 1) \div n), ((k - 1) % n)>>]
        kept(p) == (p[2] - p[1] # 0) /\ (Abs(p[2] - p[1]) < MARKOV_WINDOW_SIZE)
        sel == SelectSeq(pairs, kept)
    IN  [k \in 1..Len(sel) |-> <<span[sel[k][1] + 1], span[sel[k][2] + 1], sel[k][2] - sel[k][1]>>]

\* ngramify with `if dist <= 0: continue`: only the pairs that look forward
ngramify_forward_only(span) ==
    LET n == Len(span)
        pairs == [k \in 1..(n * n) |-> <<((k - 1) \div n), ((k - 1) % n)>>]
        kept(p) == (p[2] - p[1] > 0) /\ (Abs(p[2] - p[1]) <= MARKOV_WINDOW_SIZE)
        sel == SelectSeq(pairs, kept)
    IN  [k \in 1..Len(sel) |-> <<span[sel[k][1] + 1], span[sel[k][2] + 1], sel[k][2] - sel[k][1]>>]

\* ngramify: the triples <<a, b, dist>> in the order of the two nested loops
ngramify(span) ==
    LET n == Len(span)
        pairs == [k \in 1..(n * n) |-> <<((k - 1) \div n), ((k - 1) % n)>>]
        kept(p) == (p[2] - p[1] # 0) /\ (Abs(p[2] - p[1]) <= MARKOV_WINDOW_SIZE)
        sel == SelectSeq(pairs, kept)
    IN  [k \in 1..Len(sel) |-> <<span[sel[k][1] + 1], span[sel[k][2] + 1], sel[k][2] - sel[k][1]>>]

\* "Add distance" storing the one-hot alone instead of base + one-hot
count_and_set(neighbor, dist) ==
    [neighbor EXCEPT
        !.values[1] = @ + 1,
        !.dist = tolist(distance_one_hot(dist))]

\* "Increase Count" and "Add distance": values[COUNT] += 1, dist = base + one-hot
count_and_add(neighbor, dist) ==
    LET dist_one_hot_base == neighbor.dist
        dist_one_hot_add == distance_one_hot(dist)
    IN  [neighbor EXCEPT
            !.values[1] = @ + 1,
            !.dist = tolist([k \in 1..Len(dist_one_hot_base) |->
                                dist_one_hot_base[k] + dist_one_hot_add[k]])]

\* the body of the loop without `word = self.db.select(ngram[0].text)`: a word that
\* is not in the row cache is always built from the token
learn_ngram_without_select(st, ngram) ==
    LET a == ngram[1]
        b == ngram[2]
        cached == a.text \in DOMAIN st.row_cache
        found == None
        fresh == ~cached /\ found = None
        heap1 == IF fresh THEN Append(st.heap, <<>>) ELSE st.heap
        word == IF cached THEN st.row_cache[a.text]
                ELSE IF found # None THEN found[1]
                ELSE MarkovWord(a.text, a.pos, Len(st.heap) + 1)
        d == heap1[word.neighbors]
        neighbor == IF has_key(d, b.text) THEN get_neighbor(d, b.text)[1]
                    ELSE neighbor_from_token(b)
        added == count_and_add(neighbor, ngram[3])
        heap2 == [heap1 EXCEPT ![word.neighbors] = set_key(d, added)]
        updated == update(st.trie, word)
        trie2 == IF updated = None THEN insert(st.trie, word) ELSE updated[1]
    IN  [trie |-> trie2, heap |-> heap2,
         row_cache |-> (a.text :> word) @@ st.row_cache]

\* one pass of the body of `for ngram in ngrams`
learn_ngram(st, ngram) ==
    LET a == ngram[1]
        b == ngram[2]
        cached == a.text \in DOMAIN st.row_cache
        found == select(st.trie, a.text)
        fresh == ~cached /\ found = None
        heap1 == IF fresh THEN Append(st.heap, <<>>) ELSE st.heap
        word == IF cached THEN st.row_cache[a.text]
                ELSE IF found # None THEN found[1]
                ELSE MarkovWord(a.text, a.pos, Len(st.heap) + 1)
        d == heap1[word.neighbors]
        neighbor == IF has_key(d, b.text) THEN get_neighbor(d, b.text)[1]
                    ELSE neighbor_from_token(b)
        added == count_and_add(neighbor, ngram[3])
        heap2 == [heap1 EXCEPT ![word.neighbors] = set_key(d, added)]
        updated == update(st.trie, word)
        trie2 == IF updated = None THEN insert(st.trie, word) ELSE updated[1]
    IN  [trie |-> trie2, heap |-> heap2,
         row_cache |-> (a.text :> word) @@ st.row_cache]

RECURSIVE learn_loop(_, _)
learn_loop(st, ngrams) ==
    IF ngrams = <<>> THEN st
    ELSE CHOOSE after \in {learn_loop(next, rest) :
                               next \in {learn_ngram(st, Head(ngrams))},
                               rest \in {Tail(ngrams)}} : TRUE

\* learn(doc): the store after the call
learn(t, h, doc) ==
    LET ngrams == Concat([s \in 1..Len(doc) |-> ngramify(doc[s])])
        row_cache == [x \in {} |-> x]
        st == learn_loop([trie |-> t, heap |-> h, row_cache |-> row_cache], ngrams)
    IN  [trie |-> st.trie, heap |-> st.heap]

----------------------------------------------------------------------------
(* Inputs of the trainer *)

MaxCorpusTokens == 4

Tokens == {Token(<<"a">>, "NOUN"), Token(<<"b">>, "VERB"), Token(<<"B">>, "ADJ")}

\* the documents of at most r tokens: non-empty sequences of non-empty sentences
RECURSIVE DocsUpTo(_)
DocsUpTo(r) ==
    IF r <= 0 THEN {}
    ELSE LET first == UNION {[1..n -> Tokens] : n \in 1..r}
         IN  {<<s>> : s \in first}
             \cup UNION {{<<s>> \o d : d \in DocsUpTo(r - Len(s))} : s \in first}

DocsByBudget == [r \in 0..MaxCorpusTokens |-> DocsUpTo(r)]

DocTokens(doc) == Sum([s \in 1..Len(doc) |-> Len(doc[s])])
CorpusTokens(docs) == Sum([i \in 1..Len(docs) |-> DocTokens(docs[i])])

----------------------------------------------------------------------------
(* The trainer's specification: learn calls on an initially empty store *)

InitTrain ==
    /\ trie = EmptyTrie
    /\ heap = <<>>
    /\ learned = <<>>
    /\ call = NoCall
    /\ GenIdle
    /\ BotIdle

Learn(doc) ==
    /\ pc = "idle"
    /\ LET after == learn(trie, heap, doc)
       IN  /\ trie' = after.trie
           /\ heap' = after.heap
    /\ learned' = Append(learned, doc)
    /\ UNCHANGED <<call, gen_vars, bot_vars>>

LearnSome ==
    \E doc \in DocsByBudget[MaxCorpusTokens - CorpusTokens(learned)] : Learn(doc)

NextTrain == LearnSome

SpecTrain == InitTrain /\ [][NextTrain]_vars

----------------------------------------------------------------------------
(* MarkovWord.project and MarkovWordProjectionCollection *)

select_neighbors(d, pos) ==
    LET matches(neighbor) == neighbor.pos = pos
    IN  SelectSeq(d, matches)

\* project: `word` stands at idx_in_sentence; d is its neighbors dict
project(d, idx_in_sentence, sentence_length, pos) ==
    LET neighbors == select_neighbors(d, pos)
        dist_idx_of(s) == (s - idx_in_sentence) + MARKOV_WINDOW_SIZE
        cell(neighbor, s) ==
            IF dist_idx_of(s) >= 0 /\ dist_idx_of(s) < Len(neighbor.dist)
            THEN neighbor.dist[dist_idx_of(s) + 1]
            ELSE 0
    IN  [magnitudes |-> [n \in 1..Len(neighbors) |->
                            neighbors[n].values[1] * MARKOV_GENERATION_WEIGHT_COUNT
                            + neighbors[n].values[2] * MARKOV_GENERATION_WEIGHT_RATING],
         distances |-> [n \in 1..Len(neighbors) |->
                            [s \in 1..sentence_length |-> cell(neighbors[n], s - 1)]],
         keys |-> [n \in 1..Len(neighbors) |-> neighbors[n].text],
         pos |-> [n \in 1..Len(neighbors) |-> neighbors[n].pos]]

\* MarkovWordProjectionCollection(projections): _concat_collection
MarkovWordProjectionCollection(projections) ==
    [magnitudes |-> Concat([k \in 1..Len(projections) |-> projections[k].magnitudes]),
     distances |-> Concat([k \in 1..Len(projections) |-> projections[k].distances]),
     keys |-> Concat([k \in 1..Len(projections) |-> projections[k].keys]),
     pos |-> Concat([k \in 1..Len(projections) |-> projections[k].pos])]

\* probability_matrix: the quotient D*M / colsum is kept as numerator and
\* denominator; an entry whose denominator is 0 is the NaN of 0/0
probability_matrix(c, sentence_length) ==
    LET distance_magnitudes == [n \in 1..Len(c.keys) |->
                                   [s \in 1..sentence_length |->
                                       c.distances[n][s] * c.magnitudes[n]]]
        sums == [s \in 1..sentence_length |->
                    Sum([n \in 1..Len(c.keys) |-> distance_magnitudes[n][s]])]
    IN  [n \in 1..Len(c.keys) |->
            [s \in 1..sentence_length |->
                [num |-> distance_magnitudes[n][s], den |-> sums[s]]]]

IsNaN(p) == p.den = 0

\* np.random.choice(choices, p=p): what it can do, an index returned or a
\* ValueError raised.  With NaN among p, numpy >= 1.17 raises ("probabilities
\* contain NaN"); older builds pass the checks (every comparison with NaN is
\* false) and searchsorted on the all-NaN cdf gives index 0.
Returned(index) == [raised |-> FALSE, index |-> index]
ValueError == [raised |-> TRUE, index |-> 0]

random_choice(p) ==
    IF \E n \in 1..Len(p) : IsNaN(p[n])
    THEN {ValueError, Returned(0)}
    ELSE {Returned(n - 1) : n \in {m \in 1..Len(p) : p[m].num > 0}}

----------------------------------------------------------------------------
(* MarkovGenerator *)

\* _sort_subjects with a last pass that appends the subjects of unlisted pos
_sort_subjects_keeping_unlisted(subs) ==
    LET of_priority(subject_priority) ==
            LET has(subject) == subject.pos = subject_priority
            IN  SelectSeq(subs, has)
        unlisted(subject) ==
            \A k \in 1..Len(MARKOV_GENERATE_SUBJECT_POS_PRIORITY) :
                MARKOV_GENERATE_SUBJECT_POS_PRIORITY[k] # subject.pos
    IN  Concat([k \in 1..Len(MARKOV_GENERATE_SUBJECT_POS_PRIORITY) |->
                   of_priority(MARKOV_GENERATE_SUBJECT_POS_PRIORITY[k])])
        \o SelectSeq(subs, unlisted)

_sort_subjects(subs) ==
    LET of_priority(subject_priority) ==
            LET has(subject) == subject.pos = subject_priority
            IN  SelectSeq(subs, has)
    IN  Concat([k \in 1..Len(MARKOV_GENERATE_SUBJECT_POS_PRIORITY) |->
                   of_priority(MARKOV_GENERATE_SUBJECT_POS_PRIORITY[k])])

\* _split_sentences: the sentence structures; the generations are as many Nones
RECURSIVE split_from(_, _, _)
split_from(struct, start_index, pos_idx) ==
    IF pos_idx >= Len(struct) THEN <<>>
    ELSE IF struct[pos_idx + 1] = EOS
         THEN <<SubSeq(struct, start_index + 1, pos_idx)>>
              \o split_from(struct, pos_idx + 1, pos_idx + 1)
         ELSE split_from(struct, start_index, pos_idx + 1)

_split_sentences(struct) ==
    LET sentences == split_from(struct, 0, 0)
    IN  [structures |-> sentences,
         generations |-> [k \in 1..Len(sentences) |->
                             [i \in 1..Len(sentences[k]) |-> None]]]

\* the first subject of subs whose pos is `pos`, as the inner loop finds it
first_subject(subs, pos) ==
    LET has(subject) == subject.pos = pos
        found == SelectSeq(subs, has)
    IN  IF found = <<>> THEN None ELSE Some(found[1])

\* _assign_subjects: the generations after it, the flags and the value returned
_assign_subjects(structures, generations, subs) ==
    LET placed == [k \in 1..Len(structures) |->
                      [i \in 1..Len(structures[k]) |->
                          IF first_subject(subs, structures[k][i]) # None
                          THEN first_subject(subs, structures[k][i])
                          ELSE generations[k][i]]]
        sentences_assigned ==
            [k \in 1..Len(structures) |->
                IF \E i \in 1..Len(structures[k]) :
                       first_subject(subs, structures[k][i]) # None
                THEN Some(TRUE) ELSE None]
    IN  [generations |-> placed,
         sentences_assigned |-> sentences_assigned,
         returns |-> ~(\E k \in 1..Len(sentences_assigned) :
                          sentences_assigned[k] = Some(FALSE))]

\* _work_remaining counting the slots that are filled, `is not None`
_work_remaining_filled(generations) ==
    Sum([k \in 1..Len(generations) |->
            Cardinality({i \in 1..Len(generations[k]) : generations[k][i] # None})])

_work_remaining(generations) ==
    Sum([k \in 1..Len(generations) |->
            Cardinality({i \in 1..Len(generations[k]) : generations[k][i] = None})])

\* the walk with `if word is None and blank_idx is None`: the blank is the first
\* one met, not the last one before the anchor
RECURSIVE sweep_walk_first_blank(_, _, _)
sweep_walk_first_blank(sentence, order, blank) ==
    IF order = <<>> THEN [blank_idx |-> blank, project_idx |-> <<>>]
    ELSE LET word_idx == Head(order)
             word == sentence[word_idx + 1]
         IN  IF word = None
             THEN sweep_walk_first_blank(sentence, Tail(order),
                                         IF blank = None THEN Some(word_idx) ELSE blank)
             ELSE IF blank # None /\ Abs(blank[1] - word_idx) <= MARKOV_WINDOW_SIZE
                  THEN [blank_idx |-> blank, project_idx |-> <<word_idx>>]
                  ELSE sweep_walk_first_blank(sentence, Tail(order), blank)

\* one sweep's walk over `sentence` in the order given: blank_idx and project_idx
\* when the loop ends or breaks
RECURSIVE sweep_walk(_, _, _)
sweep_walk(sentence, order, blank) ==
    IF order = <<>> THEN [blank_idx |-> blank, project_idx |-> <<>>]
    ELSE LET word_idx == Head(order)
             word == sentence[word_idx + 1]
         IN  IF word = None
             THEN sweep_walk(sentence, Tail(order), Some(word_idx))
             ELSE IF blank # None /\ Abs(blank[1] - word_idx) <= MARKOV_WINDOW_SIZE
                  THEN [blank_idx |-> blank, project_idx |-> <<word_idx>>]
                  ELSE sweep_walk(sentence, Tail(order), blank)

\* "Work right to left": enumerate(sentence)
first_order(sentence) == [k \in 1..Len(sentence) |-> k - 1]
\* "Work left to right": enumerate(reversed(sentence)), word_idx = (len-1) - word_idx
second_order(sentence) == [k \in 1..Len(sentence) |-> (Len(sentence) - 1) - (k - 1)]

\* handle_projections: the outcomes it can have.  Each gives the generations
\* after it, the column sampled from (None when it returns before sampling)
\* and whether np.random.choice raised.
handle_projections(t, h, structures, generations, s_idx, blank, proj) ==
    LET sentence == generations[s_idx + 1]
        sentence_length == Len(sentence)
        untouched == [generations |-> generations, p_values |-> None, raised |-> FALSE]
        blank_pos == structures[s_idx + 1][blank[1] + 1]
        projections ==
            [k \in 1..Len(proj) |->
                project(h[sentence[proj[k] + 1][1].neighbors], proj[k],
                        sentence_length, blank_pos)]
        \* all_p_values[:, blank_idx]
        column(all_p_values) ==
            tolist([n \in 1..Len(all_p_values) |-> all_p_values[n][blank[1] + 1]])
        \* word_choice_idx = np.random.choice(choices, p=p_values), and what follows it
        \* (p_column is the source's p_values)
        sampled(projection_collection, p_column) ==
            {IF c.raised
             THEN [generations |-> generations, p_values |-> Some(p_column), raised |-> TRUE]
             ELSE [generations |->
                       [generations EXCEPT ![s_idx + 1][blank[1] + 1] =
                           select(t, projection_collection.keys[c.index + 1])],
                   p_values |-> Some(p_column), raised |-> FALSE]
             : c \in random_choice(p_column)}
    IN  IF ~(blank # None /\ Len(proj) > 0) THEN {untouched}
        ELSE UNION
             {IF Len(projection_collection.keys) = 0 THEN {untouched}
              ELSE UNION {sampled(projection_collection, p_column) :
                             p_column \in {column(probability_matrix(projection_collection,
                                                                     sentence_length))}}
              : projection_collection \in
                    {MarkovWordProjectionCollection(ps) : ps \in {tolist(projections)}}}

----------------------------------------------------------------------------
(* Inputs of the generator *)

MaxSkelLen == 4
MaxSubjects == 2

SkelTags == {"NOUN", "VERB", EOS}
Skeletons == UNION {[1..n -> SkelTags] : n \in 0..MaxSkelLen}

\* the words select can return from the store
StoredWords(t) == {from_db_format(t, p) : p \in {q \in DOMAIN t : t[q].W # None}}
\* the subject lists: up to MaxSubjects stored words, no word twice
SubjectLists(t) ==
    {subs \in UNION {[1..n -> StoredWords(t)] : n \in 0..MaxSubjects} :
        \A i \in 1..Len(subs), j \in 1..Len(subs) : i # j => subs[i] # subs[j]}

TokA == Token(<<"a">>, "NOUN")
TokB == Token(<<"b">>, "VERB")
TokBig == Token(<<"B">>, "ADJ")
Cat == Token(<<"c", "a", "t">>, "NOUN")
Sat == Token(<<"s", "a", "t">>, "VERB")
Mat == Token(<<"m", "a", "t">>, "NOUN")

S3Reps == 100
S3Doc == << <<Cat, Sat, Mat>> >>
S3Corpus == [k \in 1..S3Reps |-> S3Doc]
S3Skeleton == <<"NOUN", "VERB", "NOUN", EOS>>

\* the corpora the generator is run on: sequences of learn calls
GenCorpora ==
    { <<>>,
      << << <<TokA, TokB>> >> >>,
      << << <<TokBig, TokA>> >>, << <<TokA, TokB>> >> >>,
      << << <<TokA, TokB>> >>, << <<TokB, TokB>> >> >>,
      << << <<TokA, TokB, TokA>>, <<TokB, TokA>> >> >>,
      S3Corpus }

\* the store after learn has been called on docs[1], docs[2], ... in turn; the
\* calls are grouped by halves, which keeps the order they are made in
RECURSIVE learn_all(_, _, _)
learn_all(t, h, docs) ==
    IF docs = <<>> THEN [trie |-> t, heap |-> h]
    ELSE IF Len(docs) = 1 THEN learn(t, h, docs[1])
    ELSE CHOOSE store \in {learn_all(after.trie, after.heap, rest) :
                               after \in {learn_all(t, h, SubSeq(docs, 1, Len(docs) \div 2))},
                               rest \in {SubSeq(docs, Len(docs) \div 2 + 1, Len(docs))}} : TRUE

----------------------------------------------------------------------------
(* The generator's specification: one generate call on a trained store *)

Init ==
    /\ \E corpus \in GenCorpora :
          /\ learned = corpus
          /\ LET store == learn_all(EmptyTrie, <<>>, corpus)
             IN  /\ trie = store.trie
                 /\ heap = store.heap
    /\ call = NoCall
    /\ GenIdle
    /\ BotIdle

\* MarkovGenerator(structure, subjects) and the call of generate(db)
NewGenerator ==
    /\ pc = "idle"
    /\ \E struct \in Skeletons, subs \in SubjectLists(trie) :
          /\ structure' = struct
          /\ subjects' = subs
          /\ given_subjects' = subs
    /\ sentence_generations' = <<>>
    /\ sentence_structures' = <<>>
    /\ pc' = "split"
    /\ UNCHANGED <<bot_vars, trie, heap, learned, call, sentence_idx, old_work_left, iterations,
                   work_at_start, blank_idx, project_idx, p_values, result>>

SplitSentences ==
    /\ pc = "split"
    /\ \E split \in {_split_sentences(structure)} :
          /\ sentence_structures' = split.structures
          /\ sentence_generations' = split.generations
    /\ pc' = "sort"
    /\ UNCHANGED <<bot_vars, trie, heap, learned, call, given_subjects, structure, subjects, sentence_idx,
                   old_work_left, iterations, work_at_start, blank_idx, project_idx,
                   p_values, result>>

SortSubjects ==
    /\ pc = "sort"
    /\ subjects' = _sort_subjects(subjects)
    /\ pc' = "assign"
    /\ UNCHANGED <<bot_vars, trie, heap, learned, call, given_subjects, structure, sentence_structures,
                   sentence_generations, sentence_idx, old_work_left, iterations,
                   work_at_start, blank_idx, project_idx, p_values, result>>

\* `if not self._assign_subjects(): return None`
AssignSubjects ==
    /\ pc = "assign"
    /\ \E assigned \in {_assign_subjects(sentence_structures, sentence_generations, subjects)} :
           /\ sentence_generations' = assigned.generations
           /\ IF assigned.returns
              THEN pc' = "generate_words" /\ result' = result
              ELSE pc' = "returned" /\ result' = None
    /\ UNCHANGED <<bot_vars, trie, heap, learned, call, given_subjects, structure, subjects, sentence_structures,
                   sentence_idx, old_work_left, iterations, work_at_start, blank_idx,
                   project_idx, p_values>>

\* where a pass of `while True` starts: the for loop's first sentence, or the
\* check when there is no sentence
PassStart(generations) == IF Len(generations) = 0 THEN "check" ELSE "first_sweep"

\* entry of _generate_words: old_work_left = self._work_remaining()
GenerateWords ==
    /\ pc = "generate_words"
    /\ old_work_left' = _work_remaining(sentence_generations)
    /\ work_at_start' = _work_remaining(sentence_generations)
    /\ iterations' = 1
    /\ sentence_idx' = 0
    /\ pc' = PassStart(sentence_generations)
    /\ UNCHANGED <<bot_vars, trie, heap, learned, call, given_subjects, structure, subjects, sentence_structures,
                   sentence_generations, blank_idx, project_idx, p_values, result>>

\* one sweep and its handle_projections, on the generator's own state
Sweep(order, next_pc, next_idx) ==
    \E walked \in {sweep_walk(sentence_generations[sentence_idx + 1], order, None)} :
        /\ blank_idx' = walked.blank_idx
        /\ project_idx' = walked.project_idx
        /\ \E outcome \in handle_projections(trie, heap, sentence_structures,
                                             sentence_generations, sentence_idx,
                                             walked.blank_idx, walked.project_idx) :
              /\ sentence_generations' = outcome.generations
              /\ p_values' = outcome.p_values
              /\ IF outcome.raised
                 THEN pc' = "raised" /\ sentence_idx' = sentence_idx
                 ELSE pc' = next_pc /\ sentence_idx' = next_idx
        /\ UNCHANGED <<structure, subjects, sentence_structures, old_work_left,
                       iterations, work_at_start, result>>

\* the first sweep if select_neighbors filtered the anchor's dict in place
FirstSweep_filtering_in_place ==
    /\ pc = "first_sweep"
    /\ Sweep(first_order(sentence_generations[sentence_idx + 1]), "second_sweep",
             sentence_idx)
    /\ heap' = IF blank_idx' # None /\ Len(project_idx') > 0
               THEN [heap EXCEPT
                        ![sentence_generations[sentence_idx + 1][project_idx'[1] + 1][1].neighbors] =
                            select_neighbors(@, sentence_structures[sentence_idx + 1][blank_idx'[1] + 1])]
               ELSE heap
    /\ UNCHANGED <<bot_vars, trie, learned, call, given_subjects>>

FirstSweep ==
    /\ pc = "first_sweep"
    /\ Sweep(first_order(sentence_generations[sentence_idx + 1]), "second_sweep",
             sentence_idx)
    /\ UNCHANGED <<bot_vars, trie, heap, learned, call, given_subjects>>

SecondSweep ==
    /\ pc = "second_sweep"
    /\ Sweep(second_order(sentence_generations[sentence_idx + 1]),
             IF sentence_idx + 1 < Len(sentence_generations) THEN "first_sweep" ELSE "check",
             IF sentence_idx + 1 < Len(sentence_generations) THEN sentence_idx + 1 ELSE sentence_idx)
    /\ UNCHANGED <<bot_vars, trie, heap, learned, call, given_subjects>>

\* "Check if we accomplished any work"
CheckWork ==
    /\ pc = "check"
    /\ LET new_work_left == _work_remaining(sentence_generations)
       IN  IF old_work_left = new_work_left
           THEN /\ pc' = "returned"
                /\ result' = None
                /\ UNCHANGED <<old_work_left, iterations, sentence_idx>>
           ELSE IF new_work_left = 0
           THEN /\ pc' = "returned"
                /\ result' = Some(sentence_generations)
                /\ UNCHANGED <<old_work_left, iterations, sentence_idx>>
           ELSE /\ old_work_left' = new_work_left
                /\ iterations' = iterations + 1
                /\ sentence_idx' = 0
                /\ pc' = PassStart(sentence_generations)
                /\ result' = result
    /\ UNCHANGED <<bot_vars, trie, heap, learned, call, given_subjects, structure, subjects, sentence_structures,
                   sentence_generations, work_at_start, blank_idx, project_idx,
                   p_values>>

Next ==
    \/ NewGenerator
    \/ SplitSentences
    \/ SortSubjects
    \/ AssignSubjects
    \/ GenerateWords
    \/ FirstSweep
    \/ SecondSweep
    \/ CheckWork

Spec == Init /\ [][Next]_vars

\* the steps of one call of generate(db)
generate ==
    \/ SplitSentences
    \/ SortSubjects
    \/ AssignSubjects
    \/ GenerateWords
    \/ FirstSweep
    \/ SecondSweep
    \/ CheckWork

\* generate runs to completion without yielding: a call that has a step to
\* take takes it
FairSpec == Spec /\ WF_vars(generate)

----------------------------------------------------------------------------
(* Properties of the generator *)

Ended == pc \in {"returned", "raised"}
Succeeded == pc = "returned" /\ result # None

\* the slots of the board, as <<sentence, slot>> indices from 1
Slots(generations) ==
    {<<k, i>> : k \in 1..Len(generations), i \in 1..MaxSkelLen} \cap
    UNION {{<<k, i>> : i \in 1..Len(generations[k])} : k \in 1..Len(generations)}

\* the slots the assignment phase fills: those whose tag some subject has
SubjectSlot(k, i) == first_subject(subjects, sentence_structures[k][i]) # None

\* C1: every word of a non-null result of generate has the pos of the skeleton
\* slot it occupies.
C1_ResultPosMatchesSkeleton ==
    Succeeded =>
        \A sl \in Slots(result[1]) :
            result[1][sl[1]][sl[2]] # None =>
                result[1][sl[1]][sl[2]][1].pos = sentence_structures[sl[1]][sl[2]]

\* C2: whenever handle_projections samples, the column of D*M it samples from
\* has a positive sum (no entry of it is NaN), and generate does not fail at
\* the sampling step.
C2_SampledColumnIsPositive ==
    /\ p_values # None => \A n \in 1..Len(p_values[1]) : p_values[1][n].den > 0
    /\ pc # "raised"

\* C3 as stated: the fill loop runs at most W0 passes, W0 the blank count
\* after subject assignment.
C3_AtMostW0Passes == iterations <= work_at_start

\* C3 as amended: generate always ends (it returns, or raises at the sampling
\* step), the fill loop runs at most max(1, W0) passes, and a pass that does
\* not end the loop leaves strictly fewer blanks than the pass before it.
C3_BoundedFill ==
    /\ [](iterations <= IF work_at_start >= 1 THEN work_at_start ELSE 1)
    /\ [][(pc = "check" /\ pc' # "returned") =>
             (/\ _work_remaining(sentence_generations) < old_work_left
              /\ old_work_left' = _work_remaining(sentence_generations)
              /\ iterations' = iterations + 1)]_vars
    /\ ((pc = "split") ~> Ended)

\* C3's case: a call whose loop needed as many passes as there were blanks
C3_Witness == Succeeded /\ work_at_start >= 2 /\ iterations = work_at_start

\* C4: a call of generate ends by returning, and what it returns is None or
\* the board with no blank slot.
C4_NullOrComplete ==
    Ended =>
        /\ pc = "returned"
        /\ result # None =>
              /\ result[1] = sentence_generations
              /\ \A sl \in Slots(result[1]) : result[1][sl[1]][sl[2]] # None

S3Vocabulary == {Cat.text, Sat.text, Mat.text}

\* C5 (scenario S3): trained on [cat sat mat] x100, generate with skeleton
\* [NOUN, VERB, NOUN, EOS] and subject cat returns one 3-word sentence with
\* pos pattern NOUN VERB NOUN, cat first and the others from the vocabulary.
C5_S3Generates ==
    (/\ learned = S3Corpus
     /\ structure = S3Skeleton
     /\ subjects = <<select(trie, Cat.text)[1]>>
     /\ Ended)
    => /\ Succeeded
       /\ Len(result[1]) = 1
       /\ Len(result[1][1]) = 3
       /\ \A i \in 1..3 : /\ result[1][1][i] # None
                          /\ result[1][1][i][1].pos = S3Skeleton[i]
                          /\ result[1][1][i][1].text \in S3Vocabulary
       /\ result[1][1][1][1].text = Cat.text

\* a sentence of the board no slot of which has the pos of any subject
Unanchored == \E k \in 1..Len(sentence_structures) :
                  \A i \in 1..Len(sentence_structures[k]) : ~SubjectSlot(k, i)

\* C6: when subject assignment leaves a sentence without a subject, generate
\* returns None out of the assignment phase: no fill pass is begun.
C6_NoAnchorEndsInAssignment ==
    (pc \notin {"idle", "split", "sort", "assign"} /\ Unanchored)
    => (pc = "returned" /\ result = None /\ iterations = 0)

\* C7: no step of a generate call changes the store: the trie and every
\* neighbors dict stay as they were, whatever is sampled and wherever the
\* call stops.
C7_GenerateLeavesStore == [][trie' = trie /\ heap' = heap]_vars

\* C7's case: a call that sampled from the store and returned its sentences
C7_Witness == Succeeded /\ p_values # None

----------------------------------------------------------------------------
(* Properties of the trainer *)

\* the neighbor records of the store: every row of the dict of every word
StoredPaths == {p \in DOMAIN trie : trie[p].W # None}
NeighborsAt(p) == heap[trie[p].N[1]]
NeighborRecords ==
    UNION {{NeighborsAt(p)[n] : n \in 1..Len(NeighborsAt(p))} : p \in StoredPaths}

\* C8: every neighbor record has a histogram of length 2K+1 whose centre entry
\* is 0 and whose entries are non-negative.
C8_DistShape ==
    \A r \in NeighborRecords :
        /\ Len(r.dist) = 2 * MARKOV_WINDOW_SIZE + 1
        /\ r.dist[MARKOV_WINDOW_SIZE + 1] = 0
        /\ \A k \in 1..Len(r.dist) : r.dist[k] >= 0

\* C8's case: a record that several learn calls have added to
C8_Witness == Len(learned) >= 2 /\ \E r \in NeighborRecords : r.values[1] >= 2

\* C9: every neighbor record has count = sum of its histogram.
C9_CountIsSumOfDist == \A r \in NeighborRecords : r.values[1] = Sum(r.dist)

TextsOf(doc) == UNION {{doc[s][i].text : i \in 1..Len(doc[s])} : s \in 1..Len(doc)}
CaseCollision(doc) ==
    \E x \in TextsOf(doc), y \in TextsOf(doc) : x # y /\ path_of(x) = path_of(y)
Repeats(doc) ==
    \E s \in 1..Len(doc) : \E i \in 1..Len(doc[s]), j \in 1..Len(doc[s]) :
        i # j /\ doc[s][i].text = doc[s][j].text

\* C9's case: a document with a repeated word and two texts that differ in
\* case only, learned after another document
C9_Witness ==
    /\ Len(learned) >= 2
    /\ \E r \in NeighborRecords : r.values[1] >= 2
    /\ \E n \in 1..Len(learned) : CaseCollision(learned[n]) /\ Repeats(learned[n])

\* the position pairs (i, j) of one sentence of doc with texts a, b and j - i = d
Pairs(doc, a, b, d) ==
    UNION {{<<s, i, i + d>> : i \in {x \in 1..Len(doc[s]) :
                                       /\ x + d \in 1..Len(doc[s])
                                       /\ doc[s][x].text = a
                                       /\ doc[s][x + d].text = b}} :
           s \in 1..Len(doc)}

\* dist[d + K] of a's neighbor record for b, 0 when there is no such record
Recorded(a, b, d) ==
    IF select(trie, a) = None THEN 0
    ELSE IF get_neighbor(heap[select(trie, a)[1].neighbors], b) = None THEN 0
    ELSE get_neighbor(heap[select(trie, a)[1].neighbors], b)[1].dist[d + MARKOV_WINDOW_SIZE + 1]

Offsets == {d \in (-MARKOV_WINDOW_SIZE)..MARKOV_WINDOW_SIZE : d # 0}

\* C10: after one learn on a document without case collisions, dist[d + K] of
\* a's record for b is the number of pairs of positions of one sentence with
\* texts a, b at offset d, for 0 < |d| <= K; nothing else is recorded.
C10_DistCountsPairs ==
    (Len(learned) = 1 /\ ~CaseCollision(learned[1])) =>
        /\ \A a \in TextsOf(learned[1]), b \in TextsOf(learned[1]), d \in Offsets :
               Recorded(a, b, d) = Cardinality(Pairs(learned[1], a, b, d))
        /\ \A r \in NeighborRecords : r.text \in TextsOf(learned[1])
        /\ \A p \in StoredPaths : trie[p].W[1].T \in TextsOf(learned[1])

\* C10's case: a sentence longer than the window with a word that occurs twice
C10_Witness ==
    /\ Len(learned) = 1
    /\ ~CaseCollision(learned[1])
    /\ Repeats(learned[1])
    /\ \E s \in 1..Len(learned[1]) : Len(learned[1][s]) > MARKOV_WINDOW_SIZE + 1

\* _sort_subjects has run in this call of generate
Sorted == pc \notin {"idle", "split", "sort"}

\* the pos of the subject is in the priority list
Listed(subject) ==
    \E k \in 1..Len(MARKOV_GENERATE_SUBJECT_POS_PRIORITY) :
        MARKOV_GENERATE_SUBJECT_POS_PRIORITY[k] = subject.pos

\* the place of the subject's pos in the priority list, one past its end if unlisted
priority_of(subject) ==
    IF Listed(subject)
    THEN CHOOSE k \in 1..Len(MARKOV_GENERATE_SUBJECT_POS_PRIORITY) :
             MARKOV_GENERATE_SUBJECT_POS_PRIORITY[k] = subject.pos
    ELSE Len(MARKOV_GENERATE_SUBJECT_POS_PRIORITY) + 1

Count(subs, w) == Cardinality({i \in 1..Len(subs) : subs[i] = w})

\* `sorted` is ordered by priority, and in the order of `given` within one priority
OrderedByPriority(sorted, given) ==
    \A i \in 1..Len(sorted), j \in 1..Len(sorted) :
        i < j =>
            \/ priority_of(sorted[i]) < priority_of(sorted[j])
            \/ /\ priority_of(sorted[i]) = priority_of(sorted[j])
               /\ \E m \in 1..Len(given), n \in 1..Len(given) :
                      m < n /\ given[m] = sorted[i] /\ given[n] = sorted[j]

\* C17 (as stated): after subject sorting the subject list is a permutation of
\* the input list, listed pos first by priority and input order, unlisted pos
\* last in input order; none is dropped or duplicated
C17_SortIsPermutation ==
    Sorted =>
        /\ Len(subjects) = Len(given_subjects)
        /\ \A i \in 1..Len(given_subjects) :
              Count(subjects, given_subjects[i]) = Count(given_subjects, given_subjects[i])
        /\ OrderedByPriority(subjects, given_subjects)

\* C17 (amended): after subject sorting the subject list holds exactly the input
\* subjects whose pos is in the priority list, none duplicated, ordered by
\* priority position and in input order within one priority; the subjects whose
\* pos is not in the list are dropped
C17_SortKeepsListedOnly ==
    Sorted =>
        /\ \A i \in 1..Len(subjects) : Listed(subjects[i])
        /\ \A i \in 1..Len(subjects) : Count(given_subjects, subjects[i]) > 0
        /\ \A i \in 1..Len(given_subjects) :
              Count(subjects, given_subjects[i]) =
                  IF Listed(given_subjects[i])
                  THEN Count(given_subjects, given_subjects[i]) ELSE 0
        /\ OrderedByPriority(subjects, given_subjects)

\* a list of an unlisted subject followed by a listed one has been sorted
C17_Witness ==
    /\ pc = "assign"
    /\ Len(given_subjects) = 2
    /\ ~Listed(given_subjects[1])
    /\ Listed(given_subjects[2])
    /\ subjects = <<given_subjects[2]>>

\* the places of the skeleton where a maximal run of non-EOS tags starts
RunStarts(struct) ==
    {i \in 1..Len(struct) : struct[i] # EOS /\ (i = 1 \/ struct[i - 1] = EOS)}

\* the place where the run that starts at i ends
RunEnd(struct, i) ==
    CHOOSE j \in i..Len(struct) :
        /\ \A m \in i..j : struct[m] # EOS
        /\ j = Len(struct) \/ struct[j + 1] = EOS

\* the non-empty maximal runs of non-EOS tags, in skeleton order
Runs(struct) ==
    LET start(k) == CHOOSE i \in RunStarts(struct) :
                        Cardinality({m \in RunStarts(struct) : m < i}) = k - 1
    IN  [k \in 1..Cardinality(RunStarts(struct)) |->
            SubSeq(struct, start(k), RunEnd(struct, start(k)))]

\* C18: after the split phase the board holds exactly one slot array per
\* non-empty maximal run of non-EOS tags of the skeleton, in skeleton order, each
\* of the run's length and all blank; empty segments give no sentence and no
\* non-empty segment is lost
C18_SplitKeepsNonEmptyRuns ==
    pc = "sort" =>
        /\ sentence_structures = Runs(structure)
        /\ Len(sentence_generations) = Len(Runs(structure))
        /\ \A k \in 1..Len(sentence_generations) :
              /\ Len(sentence_generations[k]) = Len(Runs(structure)[k])
              /\ \A i \in 1..Len(sentence_generations[k]) :
                    sentence_generations[k][i] = None

\* the step is a sweep whose walk gave handle_projections a blank and an anchor
ReachesProjection ==
    /\ pc \in {"first_sweep", "second_sweep"}
    /\ blank_idx' # None
    /\ project_idx' # <<>>

\* the neighbors of the anchor that have the pos of the blank, before the step
AnchorNeighbors ==
    select_neighbors(
        heap[sentence_generations[sentence_idx + 1][project_idx'[1] + 1][1].neighbors],
        sentence_structures[sentence_idx + 1][blank_idx'[1] + 1])

\* C20: a sweep that reaches a projection uses exactly one anchor, a filled slot
\* next to the blank it fills: the first sweep has the anchor at j and the blank
\* at j-1, the reverse sweep the anchor at j and the blank at j+1, so that
\* |blank - anchor| = 1 is within the window and the column sampled from is made
\* of the entries of the anchor's neighbors at offset -1 (first sweep) or +1
\* (reverse sweep), each times its magnitude.  No sweep overwrites a filled slot.
C20_AnchorIsAdjacent ==
    [][/\ ReachesProjection =>
             /\ Len(project_idx') = 1
             /\ project_idx'[1] - blank_idx'[1] = (IF pc = "first_sweep" THEN 1 ELSE -1)
             /\ Abs(blank_idx'[1] - project_idx'[1]) <= MARKOV_WINDOW_SIZE
             /\ sentence_generations[sentence_idx + 1][blank_idx'[1] + 1] = None
             /\ sentence_generations[sentence_idx + 1][project_idx'[1] + 1] # None
             /\ p_values' # None =>
                   /\ Len(p_values'[1]) = Len(AnchorNeighbors)
                   /\ \A n \in 1..Len(AnchorNeighbors) :
                         p_values'[1][n].num =
                             AnchorNeighbors[n].dist[MARKOV_WINDOW_SIZE + 1 +
                                                     (blank_idx'[1] - project_idx'[1])]
                             * (AnchorNeighbors[n].values[1] * MARKOV_GENERATION_WEIGHT_COUNT
                                + AnchorNeighbors[n].values[2] * MARKOV_GENERATION_WEIGHT_RATING)
       /\ pc \in {"first_sweep", "second_sweep"} =>
             \A s \in Slots(sentence_generations) :
                 sentence_generations[s[1]][s[2]] # None =>
                     sentence_generations'[s[1]][s[2]] = sentence_generations[s[1]][s[2]]]_vars

\* a first sweep has met two blanks before its anchor and filled the nearer one
C20_Witness ==
    /\ pc = "second_sweep"
    /\ blank_idx = Some(1)
    /\ project_idx = <<2>>
    /\ p_values # None
    /\ sentence_generations[sentence_idx + 1][1] = None
    /\ sentence_generations[sentence_idx + 1][2] # None
    /\ sentence_generations[sentence_idx + 1][3] # None

\* C15: whenever the blank count recomputed after a full pass of the fill loop
\* is 0, generate ends with success and returns the sentences, also when the
\* subject assignment alone filled every slot (W0 = 0)
C15_NoBlankLeftIsSuccess ==
    (pc = "returned" /\ iterations >= 1 /\ _work_remaining(sentence_generations) = 0) =>
        result = Some(sentence_generations)

\* C16: after _assign_subjects no subject word occupies slots of two different
\* sentences of the board
C16_SubjectInOneSentence ==
    pc = "generate_words" =>
        \A s \in Slots(sentence_generations), t \in Slots(sentence_generations) :
            (s[1] # t[1] /\ sentence_generations[s[1]][s[2]] # None) =>
                sentence_generations[s[1]][s[2]] # sentence_generations[t[1]][t[2]]

\* C19: across learn calls the neighbor map of a stored word only grows: a stored
\* word stays stored, a neighbor key stays a key, and its count and each entry
\* of its dist never decrease
C19_NeighborsOnlyGrow ==
    [][\A p \in StoredPaths :
          /\ p \in StoredPaths'
          /\ \A n \in 1..Len(NeighborsAt(p)) :
                \E m \in 1..Len(NeighborsAt(p)') :
                    /\ NeighborsAt(p)'[m].text = NeighborsAt(p)[n].text
                    /\ NeighborsAt(p)'[m].values[1] >= NeighborsAt(p)[n].values[1]
                    /\ \A k \in 1..Len(NeighborsAt(p)[n].dist) :
                          NeighborsAt(p)'[m].dist[k] >= NeighborsAt(p)[n].dist[k]]_vars

\* a second learn call has raised the count of a pair the first call recorded,
\* for a word the store reaches through another case of its text
C19_Witness ==
    /\ Len(learned) = 2
    /\ CaseCollision(learned[1] \o learned[2])
    /\ \E p \in StoredPaths : \E n \in 1..Len(NeighborsAt(p)) :
          /\ NeighborsAt(p)[n].values[1] = 2
          /\ Cardinality(Pairs(learned[1], trie[p].W[1].T, NeighborsAt(p)[n].text, 1)) = 1

----------------------------------------------------------------------------
(* Properties of the store *)

\* two texts that differ at most in the case of their letters
SameUpToCase(s, t) ==
    /\ Len(s) = Len(t)
    /\ \A i \in 1..Len(s) : s[i] = t[i] \/ {s[i], t[i]} = {"b", "B"}

\* C11: insert(w) of a word with non-empty text returns a word equal to w, and a
\* select(t) that follows returns that word (same text, pos and neighbors) for
\* every t equal to w.text up to letter case, whatever the store held before
C11_InsertThenSelect ==
    (call.op = "insert" /\ call.text # <<>>) =>
        /\ call.returned = call.word
        /\ \A t \in DbTexts :
              SameUpToCase(t, call.text) => select(trie, t) = call.word

\* a word inserted over a stored word that differs in case, pos and neighbors
C11_Witness ==
    /\ call.op = "insert"
    /\ call.text = <<"a", "B">>
    /\ select(call.trie, <<"a", "b">>) # None
    /\ select(call.trie, <<"a", "b">>) # call.word
    /\ select(trie, <<"a", "b">>) = call.word
    /\ select(trie, <<"a", "B">>) = call.word

\* the store of the last call held no payload at the path of the call's text
NoPayloadBefore ==
    \/ path_of(call.text) \notin DOMAIN call.trie
    \/ call.trie[path_of(call.text)].W = None

\* C12: update(w) on a store with no payload at w's path (an absent path, or a
\* path that is only a prefix of longer words) returns None and leaves the whole
\* trie as it was: no node, no payload, and select(w.text) still returns None
C12_UpdateMissCreatesNothing ==
    (call.op = "update" /\ NoPayloadBefore) =>
        /\ call.returned = None
        /\ trie = call.trie
        /\ select(trie, call.text) = None

\* update("a") on a store where "a" is only the prefix of the stored "ab"
C12_Witness ==
    /\ call.op = "update"
    /\ call.text = <<"a">>
    /\ <<"a">> \in DOMAIN call.trie
    /\ call.trie[<<"a">>].W = None
    /\ select(call.trie, <<"a", "b">>) # None
    /\ call.returned = None

\* C13: for a word whose text is empty, select, insert and update each return
\* None and leave the trie as it was; no payload is attached to the root node
C13_EmptyTextIsRefused ==
    (call.op \in {"select", "insert", "update"} /\ call.text = <<>>) =>
        /\ call.returned = None
        /\ trie = call.trie
        /\ trie[<<>>].W = None

\* a snapshot that decompresses, decodes and holds a well-formed trie node map
ValidSnapshot(snapshot) ==
    /\ snapshot.decompresses
    /\ snapshot.decodes
    /\ WellFormed(snapshot.trie, snapshot.heap)

\* C14: a load whose snapshot fails decompression, JSON decoding or structural
\* validation fails and leaves the store exactly as it was before the call; the
\* store is replaced only by a valid trie
C14_FailedLoadLeavesStore ==
    call.op = "load" =>
        IF ValidSnapshot(call.snapshot[1])
        THEN ~call.raised /\ trie = call.snapshot[1].trie /\ heap = call.snapshot[1].heap
        ELSE call.raised /\ trie = call.trie /\ heap = call.heap

----------------------------------------------------------------------------
(* The neighbor relation of a trained store *)

\* the stored word at path p has a neighbor row n with a count at offset d
NeighborAt(p, n, d) == NeighborsAt(p)[n].dist[d + MARKOV_WINDOW_SIZE + 1] >= 1

\* the stored word that `text` resolves to has a row, under a key equal to
\* `back` up to letter case, with a count at offset d
RecordedUpToCase(text, back, d) ==
    /\ select(trie, text) # None
    /\ \E m \in 1..Len(heap[select(trie, text)[1].neighbors]) :
          /\ SameUpToCase(heap[select(trie, text)[1].neighbors][m].text, back)
          /\ heap[select(trie, text)[1].neighbors][m].dist[d + MARKOV_WINDOW_SIZE + 1] >= 1

\* C21 (as stated): after any sequence of learn calls from an empty store every
\* neighbor key of every stored word resolves through select to a stored word,
\* and if b is a neighbor of a at offset d then b has a neighbor record for a's
\* text at offset -d
C21_NeighborsClosedOnText ==
    \A p \in StoredPaths : \A n \in 1..Len(NeighborsAt(p)) :
        /\ select(trie, NeighborsAt(p)[n].text) # None
        /\ \A d \in Offsets :
              NeighborAt(p, n, d) =>
                  Recorded(NeighborsAt(p)[n].text, trie[p].W[1].T, -d) >= 1

\* C21 (amended): after any sequence of learn calls from an empty store every
\* neighbor key of every stored word resolves through select to a stored word,
\* and if b is a neighbor of a at offset d then the word b resolves to has a
\* neighbor record at offset -d under a key equal to a's text up to letter case
C21_NeighborsClosedUpToCase ==
    \A p \in StoredPaths : \A n \in 1..Len(NeighborsAt(p)) :
        /\ select(trie, NeighborsAt(p)[n].text) # None
        /\ \A d \in Offsets :
              NeighborAt(p, n, d) =>
                  RecordedUpToCase(NeighborsAt(p)[n].text, trie[p].W[1].T, -d)

\* two learn calls have left a stored word with a neighbor whose record back is
\* kept under another case of the word's text only
C21_Witness ==
    /\ Len(learned) = 2
    /\ \E p \in StoredPaths : \E n \in 1..Len(NeighborsAt(p)) : \E d \in Offsets :
          /\ NeighborAt(p, n, d)
          /\ Recorded(NeighborsAt(p)[n].text, trie[p].W[1].T, -d) = 0
          /\ RecordedUpToCase(NeighborsAt(p)[n].text, trie[p].W[1].T, -d)

----------------------------------------------------------------------------
(* Properties of the bot *)

\* the sends whose arguments were read from the reply slot
SlotSends == {i \in 1..Len(chat) : chat[i].from_slot}

\* C22: under any interleaving of on_message handlers every reply stored in
\* ftbot.reply by FTBot.output is sent to the chat at most once, and only by the
\* handler whose message produced it
C22_ReplySentOnceByItsHandler ==
    /\ \A i \in SlotSends : chat[i].by = chat[i].message.of
    /\ \A i \in SlotSends, j \in SlotSends :
          chat[i].message = chat[j].message => i = j

====
